---- MODULE Spec2Model ----
(***************************************************************************)
(* Model of the table-driven LL(1) parser of rust-ll1engine                *)
(* (src/src/parser.rs): LL1Parser::new, LL1Parser::parse and the           *)
(* derivation loop ll1_parse with its explicit stack of frames and the     *)
(* syntax tree it fills in.  The grammar module (crate::gram) is not part  *)
(* of the sources at hand; FIRST, FOLLOW and PREDICT follow section 4.1 of *)
(* the specification.                                                      *)
(***************************************************************************)
EXTENDS Integers, Sequences, FiniteSets, TLC

VARIABLES
    gram,             \* LL1Parser.gram: the set of productions (indices of Prods)
    prediction_sets,  \* LL1Parser.prediction_sets: <<lhs, lookahead>> -> production, 0 = None
    tokens,           \* the argument of parse: names of the tokens
    pc,               \* "new", "ready", "outer", "inner", "done"
    states_stack,     \* ll1_parse: Vec<(Rc<RefCell<AST>>, Stack<GramSym>)>, top last
    cur_ast,          \* ll1_parse: node of the frame popped last (0 before the first pop)
    symstr_stack,     \* ll1_parse: pending symbols of the frame popped last, top last
    i,                \* ll1_parse: the input cursor (0-based, as in the source)
    nodes,            \* the AST nodes allocated so far; nodes[1] is root
    res,              \* the value returned: "none" while running
    srcstr,           \* SrcFileInfo.srcstr: the characters of the source file
    lines,            \* SrcFileInfo.lines: the line-start table
    offset,           \* the argument of offset2srcloc
    srcloc            \* the SrcLoc offset2srcloc returned

parservars == <<gram, prediction_sets, tokens, states_stack, cur_ast,
                symstr_stack, i, nodes, res>>
srcvars == <<srcstr, lines, offset, srcloc>>
vars == <<parservars, pc, srcvars>>

----------------------------------------------------------------------------
(* Bounds and the input universe *)

MaxLen == 4

Terminals == {"a", "b"}
NonTerminals == {"S", "A", "B"}
EndMarker == "$"
EpsMarker == "eps"
StartSym == "S"

Str(lhs, s) == [lhs |-> lhs, eps |-> FALSE, str |-> s]
Epsilon(lhs) == [lhs |-> lhs, eps |-> TRUE, str |-> <<>>]

\* The productions grammars are drawn from; a grammar is a set of indices.
Prods ==
    << Str("S", <<"a", "S", "b">>),   \* 1
       Epsilon("S"),                  \* 2
       Str("S", <<"a">>),             \* 3
       Str("S", <<"a", "b">>),        \* 4
       Str("S", <<"b", "A">>),        \* 5
       Str("S", <<"a", "A", "b">>),   \* 6
       Str("S", <<"A", "b">>),        \* 7
       Str("A", <<"B">>),             \* 8
       Str("A", <<"a">>),             \* 9
       Epsilon("B"),                  \* 10
       Str("B", <<"b">>) >>           \* 11

ProdIds == 1..Len(Prods)

RECURSIVE SeqsUpTo(_, _)
SeqsUpTo(S, n) ==
    IF n = 0 THEN {<<>>}
    ELSE LET shorter == SeqsUpTo(S, n - 1)
         IN  shorter \cup {Append(s, x) : s \in {t \in shorter : Len(t) = n - 1}, x \in S}

TokenSeqs == SeqsUpTo(Terminals, MaxLen)

Range(s) == {s[k] : k \in 1..Len(s)}

Defined(g) == {Prods[p].lhs : p \in g}
Used(g) == UNION {Range(Prods[p].str) \cap NonTerminals : p \in g}

RECURSIVE ReachableFrom(_, _)
ReachableFrom(g, R) ==
    LET R2 == R \cup UNION {Range(Prods[p].str) \cap NonTerminals :
                            p \in {q \in g : Prods[q].lhs \in R}}
    IN  IF R2 = R THEN R ELSE ReachableFrom(g, R2)

\* Section 3 of the specification: every nonterminal used on a right-hand
\* side is the lhs of some production; here also every production is
\* reachable from the start symbol.
WellFormed(g) ==
    /\ StartSym \in Defined(g)
    /\ Used(g) \subseteq Defined(g)
    /\ Defined(g) \subseteq ReachableFrom(g, {StartSym})

Grams == {g \in SUBSET ProdIds : WellFormed(g)}

----------------------------------------------------------------------------
(* crate::gram, from section 4.1 of the specification *)

is_terminal(sym) == sym \in Terminals

RECURSIVE FirstOfStr(_, _)
FirstOfStr(F, s) ==
    IF Len(s) = 0 THEN {EpsMarker}
    ELSE IF is_terminal(Head(s)) THEN {Head(s)}
    ELSE (F[Head(s)] \ {EpsMarker})
         \cup (IF EpsMarker \in F[Head(s)] THEN FirstOfStr(F, Tail(s)) ELSE {})

FirstOfProd(F, p) ==
    IF Prods[p].eps THEN {EpsMarker} ELSE FirstOfStr(F, Prods[p].str)

RECURSIVE FirstFix(_, _)
FirstFix(g, F) ==
    LET F2 == [X \in NonTerminals |->
                 F[X] \cup UNION {FirstOfProd(F, p) : p \in {q \in g : Prods[q].lhs = X}}]
    IN  IF F2 = F THEN F ELSE FirstFix(g, F2)

first_sets(g) == FirstFix(g, [X \in NonTerminals |-> {}])

Suffix(s, k) == SubSeq(s, k + 1, Len(s))

RECURSIVE FollowFix(_, _, _)
FollowFix(g, F, Fo) ==
    LET Occ(X) == {<<p, k>> \in g \X (1..3) :
                     k <= Len(Prods[p].str) /\ Prods[p].str[k] = X}
        Add(X, o) ==
            LET beta == FirstOfStr(F, Suffix(Prods[o[1]].str, o[2]))
            IN  (beta \ {EpsMarker})
                \cup (IF EpsMarker \in beta THEN Fo[Prods[o[1]].lhs] ELSE {})
        Fo2 == [X \in NonTerminals |-> Fo[X] \cup UNION {Add(X, o) : o \in Occ(X)}]
    IN  IF Fo2 = Fo THEN Fo ELSE FollowFix(g, F, Fo2)

follow_sets(g, F) ==
    FollowFix(g, F, [X \in NonTerminals |-> IF X = StartSym THEN {EndMarker} ELSE {}])

Lookaheads == Terminals \cup {EndMarker}
Keys == NonTerminals \X Lookaheads

\* The productions that register themselves under the key <<X, la>>.
Claimants(g, F, Fo, X, la) ==
    {p \in g : /\ Prods[p].lhs = X
               /\ \/ la \in FirstOfProd(F, p) \ {EpsMarker}
                  \/ EpsMarker \in FirstOfProd(F, p) /\ la \in Fo[X]}

\* The table a construction that overwrites on a collision would build:
\* the production registered last stays, and construction succeeds.
prediction_sets_overwrite(g, F, Fo) ==
    [ok    |-> TRUE,
     table |-> [k \in Keys |->
                  LET c == Claimants(g, F, Fo, k[1], k[2])
                  IN  IF c = {} THEN 0 ELSE CHOOSE p \in c : \A q \in c : q <= p]]

\* ok = FALSE is the ambiguity diagnostic (TrapCode::AmbigousLLRule).
prediction_sets_of(g, F, Fo) ==
    [ok    |-> \A k \in Keys : Cardinality(Claimants(g, F, Fo, k[1], k[2])) <= 1,
     table |-> [k \in Keys |->
                  LET c == Claimants(g, F, Fo, k[1], k[2])
                  IN  IF Cardinality(c) = 1 THEN CHOOSE p \in c : TRUE ELSE 0]]

NoTable == [k \in Keys |-> 0]

----------------------------------------------------------------------------
(* Source locations *)

MaxSrcLen == 4
MaxOffset == 6

NewLine == "\n"
SrcChars == {"x", NewLine}

RECURSIVE BuildLinesFrom(_, _, _, _)
BuildLinesFrom(src, k, total, ls) ==
    IF k > Len(src) THEN ls
    ELSE BuildLinesFrom(src, k + 1, total + 1,
                        IF src[k] = NewLine THEN Append(ls, total + 1) ELSE ls)

\* A table that does not start with the entry 0.
build_lines_NoZero(src) == BuildLinesFrom(src, 1, 0, <<>>)

\* SrcFileInfo::build_lines
build_lines(src) == BuildLinesFrom(src, 1, 0, <<0>>)

\* slice::binary_search on a strictly increasing table: Ok(index) of the
\* entry equal to x, or Err(index where x would be inserted); 0-based.
binary_search(ls, x) ==
    IF \E k \in 1..Len(ls) : ls[k] = x
    THEN [found |-> TRUE, idx |-> (CHOOSE k \in 1..Len(ls) : ls[k] = x) - 1]
    ELSE [found |-> FALSE, idx |-> Cardinality({k \in 1..Len(ls) : ls[k] < x})]

\* SrcFileInfo::offset2srcloc; panic: idx - 1 or the subtraction underflows.
offset2srcloc(ls, off) ==
    LET r == binary_search(ls, off)
    IN  IF r.found THEN [ln |-> r.idx, col |-> 0, panic |-> FALSE]
        ELSE IF r.idx = 0 THEN [ln |-> 0, col |-> 0, panic |-> TRUE]
        ELSE IF off < ls[r.idx] THEN [ln |-> r.idx, col |-> 0, panic |-> TRUE]
        ELSE [ln |-> r.idx, col |-> off - ls[r.idx], panic |-> FALSE]

NoLoc == [ln |-> 0, col |-> 0, panic |-> FALSE]

----------------------------------------------------------------------------
(* Syntax tree and stacks *)

AST_new(sym) == [sym |-> sym, elems |-> <<>>]

\* A leaf that replaces the children the node has.
insert_leaf_Replace(ns, n, tk) ==
    [ns EXCEPT ![n].elems =
        <<[sym |-> tokens[tk + 1], leaf |-> TRUE, ref |-> tk]>>]

\* A leaf put in front of the children the node has.
insert_leaf_Front(ns, n, tk) ==
    [ns EXCEPT ![n].elems =
        <<[sym |-> tokens[tk + 1], leaf |-> TRUE, ref |-> tk]>> \o @]

\* AST::insert_leaf: the child is the token at (0-based) position tk.
insert_leaf(ns, n, tk) ==
    [ns EXCEPT ![n].elems =
        Append(@, [sym |-> tokens[tk + 1], leaf |-> TRUE, ref |-> tk])]

\* A subtree appended twice to its parent.
insert_tree_Twice(ns, n, sub) ==
    [ns EXCEPT ![n].elems =
        @ \o <<[sym |-> ns[sub].sym, leaf |-> FALSE, ref |-> sub],
               [sym |-> ns[sub].sym, leaf |-> FALSE, ref |-> sub]>>]

\* AST::insert_tree: the child is the node sub.
insert_tree(ns, n, sub) ==
    [ns EXCEPT ![n].elems =
        Append(@, [sym |-> ns[sub].sym, leaf |-> FALSE, ref |-> sub])]

Reverse(s) == [k \in 1..Len(s) |-> s[Len(s) + 1 - k]]

\* Stack::from(vec): the first symbol of vec pops first.
StackFrom(vec) == Reverse(vec)
Top(stk) == stk[Len(stk)]
Pop(stk) == SubSeq(stk, 1, Len(stk) - 1)

\* LL1Parser::predict_prod: 0 is None.
predict_prod(lfsym, la) ==
    IF <<lfsym, la>> \in Keys THEN prediction_sets[<<lfsym, la>>] ELSE 0

----------------------------------------------------------------------------
(* Operations *)

Init ==
    /\ gram \in Grams
    /\ prediction_sets = NoTable
    /\ tokens = <<>>
    /\ pc = "new"
    /\ states_stack = <<>>
    /\ cur_ast = 0
    /\ symstr_stack = <<>>
    /\ i = 0
    /\ nodes = <<>>
    /\ res = "none"
    /\ srcstr = <<>>
    /\ lines = <<>>
    /\ offset = 0
    /\ srcloc = NoLoc

\* LL1Parser::new: FIRST, then FOLLOW, then PREDICT; no parser on ambiguity.
New ==
    /\ pc = "new"
    /\ LET F  == first_sets(gram)
           Fo == follow_sets(gram, F)
           ps == prediction_sets_of(gram, F, Fo)
       IN  IF ps.ok
           THEN /\ prediction_sets' = ps.table
                /\ pc' = "ready"
                /\ res' = res
           ELSE /\ prediction_sets' = NoTable
                /\ pc' = "done"
                /\ res' = "AmbigousLLRule"
    /\ UNCHANGED <<gram, tokens, states_stack, cur_ast, symstr_stack, i, nodes>>
    /\ UNCHANGED srcvars

\* The empty check placed after the creation of the root node.
ReturnEmpty_AfterRoot ==
    /\ res' = "EmptyTokens"
    /\ pc' = "done"
    /\ nodes' = <<AST_new(StartSym)>>
    /\ UNCHANGED <<states_stack, i>>

\* parse, tokens.is_empty(): return Err("empty tokens").
ReturnEmpty ==
    /\ res' = "EmptyTokens"
    /\ pc' = "done"
    /\ UNCHANGED <<nodes, states_stack, i>>

\* parse on a non-empty input: the root node, the lookup of the start
\* production, the first frame and ll1_parse's prologue (i = 0).
ParseRoot(toks) ==
    LET prod == predict_prod(StartSym, toks[1])
    IN  /\ nodes' = <<AST_new(StartSym)>>
        /\ IF prod = 0
           THEN /\ res' = "UnexpectedRoot"
                /\ pc' = "done"
                /\ UNCHANGED <<states_stack, i>>
           ELSE IF Prods[prod].eps
           THEN /\ res' = "panic"      \* unreachable!()
                /\ pc' = "done"
                /\ UNCHANGED <<states_stack, i>>
           ELSE /\ states_stack' =
                     <<[ast |-> 1, syms |-> StackFrom(Prods[prod].str)]>>
                /\ i' = 0
                /\ pc' = "outer"
                /\ res' = res

\* LL1Parser::parse up to the call of ll1_parse.
Parse ==
    /\ pc = "ready"
    /\ \E toks \in TokenSeqs :
        /\ tokens' = toks
        /\ IF Len(toks) = 0 THEN ReturnEmpty ELSE ParseRoot(toks)
    /\ UNCHANGED <<gram, prediction_sets, cur_ast, symstr_stack>>
    /\ UNCHANGED srcvars

tokenslen == Len(tokens)
tokenslastpos == tokenslen - 1

\* while let Some((cur_ast, symstr_stack)) = states_stack.pop()
PopFrame ==
    /\ pc = "outer"
    /\ Len(states_stack) > 0
    /\ cur_ast' = Top(states_stack).ast
    /\ symstr_stack' = Top(states_stack).syms
    /\ states_stack' = Pop(states_stack)
    /\ pc' = "inner"
    /\ UNCHANGED <<gram, prediction_sets, tokens, i, nodes, res>>
    /\ UNCHANGED srcvars

\* The outer loop ends: the check for remaining tokens and the result.
Finish ==
    /\ pc = "outer"
    /\ Len(states_stack) = 0
    /\ res' = IF i < tokenslastpos THEN "TokensRemain" ELSE "Ok"
    /\ pc' = "done"
    /\ UNCHANGED <<gram, prediction_sets, tokens, states_stack, cur_ast,
                   symstr_stack, i, nodes>>
    /\ UNCHANGED srcvars

\* while let Some(right_sym) = symstr_stack.pop() finds no symbol.
InnerLoopEnd ==
    /\ pc = "inner"
    /\ Len(symstr_stack) = 0
    /\ pc' = "outer"
    /\ UNCHANGED <<gram, prediction_sets, tokens, states_stack, cur_ast,
                   symstr_stack, i, nodes, res>>
    /\ UNCHANGED srcvars

\* A symbol is popped after the last token was consumed.
Exhausted ==
    /\ pc = "inner"
    /\ Len(symstr_stack) > 0
    /\ i > tokenslastpos
    /\ symstr_stack' = Pop(symstr_stack)
    /\ res' = IF predict_prod(Top(symstr_stack), EndMarker) # 0
              THEN "Ok" ELSE "Unfinished"
    /\ pc' = "done"
    /\ UNCHANGED <<gram, prediction_sets, tokens, states_stack, cur_ast, i, nodes>>
    /\ UNCHANGED srcvars

\* A terminal is popped while input remains.
EatTerminal ==
    /\ pc = "inner"
    /\ Len(symstr_stack) > 0
    /\ i <= tokenslastpos
    /\ is_terminal(Top(symstr_stack))
    /\ symstr_stack' = Pop(symstr_stack)
    /\ IF Top(symstr_stack) = tokens[i + 1]
       THEN /\ nodes' = insert_leaf(nodes, cur_ast, i)
            /\ i' = i + 1
            /\ pc' = IF i + 1 = tokenslen THEN "outer" ELSE "inner"
            /\ res' = res
       ELSE /\ res' = "Unmatched"
            /\ pc' = "done"
            /\ UNCHANGED <<i, nodes>>
    /\ UNCHANGED <<gram, prediction_sets, tokens, states_stack, cur_ast>>
    /\ UNCHANGED srcvars

\* A missing table entry treated like an Epsilon expansion.
DeriveNone_Skip(rest) ==
    /\ symstr_stack' = rest
    /\ pc' = "inner"
    /\ UNCHANGED <<nodes, states_stack, res>>

\* No production is predicted for (right_sym, tokens[i]).
DeriveNone(rest) ==
    /\ symstr_stack' = rest
    /\ res' = "UnexpectedDerive"
    /\ pc' = "done"
    /\ UNCHANGED <<nodes, states_stack>>

\* An Epsilon expansion that leaves the symbol on the pending stack.
DeriveEpsilon_Peek(rest) ==
    /\ symstr_stack' = symstr_stack
    /\ pc' = "inner"
    /\ UNCHANGED <<nodes, states_stack, res>>

\* An Epsilon expansion that creates a (childless) node for the symbol.
DeriveEpsilon_Node(rest) ==
    /\ symstr_stack' = rest
    /\ pc' = "inner"
    /\ nodes' = [Append(nodes, [sym |-> symstr_stack[Len(symstr_stack)], elems |-> <<>>])
                   EXCEPT ![cur_ast].elems =
                     Append(@, [sym |-> symstr_stack[Len(symstr_stack)],
                                leaf |-> FALSE, ref |-> Len(nodes) + 1])]
    /\ UNCHANGED <<states_stack, res>>

\* GramSymStr::Epsilon => continue
DeriveEpsilon(rest) ==
    /\ symstr_stack' = rest
    /\ pc' = "inner"
    /\ UNCHANGED <<nodes, states_stack, res>>

\* The current frame pushed back as it was before right_sym was popped.
DeriveStr_KeepSym(right_sym, rest, symstr_vec) ==
    LET sub_sym_tree == Len(nodes) + 1
    IN  /\ symstr_stack' = rest
        /\ nodes' = insert_tree(Append(nodes, AST_new(right_sym)),
                                cur_ast, sub_sym_tree)
        /\ states_stack' =
             states_stack
             \o <<[ast |-> cur_ast, syms |-> symstr_stack],
                  [ast |-> sub_sym_tree, syms |-> StackFrom(symstr_vec)]>>
        /\ pc' = "outer"
        /\ res' = res

\* GramSymStr::Str(symstr_vec): new node, both frames pushed, break.
DeriveStr(right_sym, rest, symstr_vec) ==
    LET sub_sym_tree == Len(nodes) + 1
    IN  /\ symstr_stack' = rest
        /\ nodes' = insert_tree(Append(nodes, AST_new(right_sym)),
                                cur_ast, sub_sym_tree)
        /\ states_stack' =
             states_stack
             \o <<[ast |-> cur_ast, syms |-> rest],
                  [ast |-> sub_sym_tree, syms |-> StackFrom(symstr_vec)]>>
        /\ pc' = "outer"
        /\ res' = res

\* A nonterminal is popped while input remains.
Derive ==
    /\ pc = "inner"
    /\ Len(symstr_stack) > 0
    /\ i <= tokenslastpos
    /\ ~is_terminal(Top(symstr_stack))
    /\ LET right_sym == Top(symstr_stack)
           rest == Pop(symstr_stack)
           prod == predict_prod(right_sym, tokens[i + 1])
       IN  IF prod = 0 THEN DeriveNone(rest)
           ELSE IF Prods[prod].eps THEN DeriveEpsilon(rest)
           ELSE DeriveStr(right_sym, rest, Prods[prod].str)
    /\ UNCHANGED <<gram, prediction_sets, tokens, cur_ast, i>>
    /\ UNCHANGED srcvars

Next ==
    \/ New
    \/ Parse
    \/ PopFrame
    \/ Finish
    \/ InnerLoopEnd
    \/ Exhausted
    \/ EatTerminal
    \/ Derive

Spec == Init /\ [][Next]_vars

\* The loop is sequential code: a step that can be taken is taken.
FairSpec == Spec /\ WF_vars(Next)

----------------------------------------------------------------------------
(* SrcFileInfo on its own: a file is loaded, then offsets are looked up *)

SrcInit ==
    /\ srcstr \in SeqsUpTo(SrcChars, MaxSrcLen)
    /\ lines = <<>>
    /\ offset = 0
    /\ srcloc = NoLoc
    /\ pc = "src_new"
    /\ gram = {}
    /\ prediction_sets = NoTable
    /\ tokens = <<>>
    /\ states_stack = <<>>
    /\ cur_ast = 0
    /\ symstr_stack = <<>>
    /\ i = 0
    /\ nodes = <<>>
    /\ res = "none"

\* SrcFileInfo::new
SrcFileInfo_new ==
    /\ pc = "src_new"
    /\ lines' = build_lines(srcstr)
    /\ pc' = "src_ready"
    /\ UNCHANGED <<srcstr, offset, srcloc, parservars>>

\* A call of offset2srcloc.
Offset2SrcLoc ==
    /\ pc \in {"src_ready", "src_loc"}
    /\ \E off \in 0..MaxOffset :
         /\ offset' = off
         /\ srcloc' = offset2srcloc(lines, off)
    /\ pc' = "src_loc"
    /\ UNCHANGED <<srcstr, lines, parservars>>

SrcNext ==
    \/ SrcFileInfo_new
    \/ Offset2SrcLoc

SrcSpec == SrcInit /\ [][SrcNext]_vars

----------------------------------------------------------------------------
(* The language of a grammar, defined from its productions alone          *)
(* (no production of Prods is left-recursive, so the recursion ends)      *)

Leaf(sym) == [sym |-> sym, leaf |-> TRUE, kids |-> <<>>]
Node(sym, kids) == [sym |-> sym, leaf |-> FALSE, kids |-> kids]

\* The derivations of the token names w from the symbol string alpha, each
\* as the sequence of trees of alpha's symbols; a nonterminal expanded
\* with its Epsilon production contributes no tree.
RECURSIVE Derivations(_, _, _)
Derivations(g, alpha, w) ==
    IF Len(alpha) = 0 THEN (IF Len(w) = 0 THEN {<<>>} ELSE {})
    ELSE IF is_terminal(Head(alpha))
    THEN IF Len(w) > 0 /\ Head(w) = Head(alpha)
         THEN {<<Leaf(Head(alpha))>> \o r : r \in Derivations(g, Tail(alpha), Tail(w))}
         ELSE {}
    ELSE UNION {
           UNION {
             LET rests == Derivations(g, Tail(alpha), Suffix(w, k))
             IN  IF rests = {} THEN {}
                 ELSE IF Prods[p].eps THEN (IF k = 0 THEN rests ELSE {})
                 ELSE {<<Node(Head(alpha), kids)>> \o r :
                         kids \in Derivations(g, Prods[p].str, SubSeq(w, 1, k)),
                         r \in rests}
             : k \in 0..Len(w)}
           : p \in {q \in g : Prods[q].lhs = Head(alpha)}}

IsSentence(g, w) == Derivations(g, <<StartSym>>, w) # {}

\* The nonterminals that derive some string of terminals.
RECURSIVE ProductiveFix(_, _)
ProductiveFix(g, P) ==
    LET P2 == P \cup {Prods[p].lhs :
                        p \in {q \in g : Range(Prods[q].str) \subseteq Terminals \cup P}}
    IN  IF P2 = P THEN P ELSE ProductiveFix(g, P2)

Productive(g) == ProductiveFix(g, {})

\* w is a prefix of some string of terminals that alpha derives.
RECURSIVE DerivesPrefix(_, _, _)
DerivesPrefix(g, alpha, w) ==
    IF Len(w) = 0 THEN Range(alpha) \subseteq Terminals \cup Productive(g)
    ELSE IF Len(alpha) = 0 THEN FALSE
    ELSE IF is_terminal(Head(alpha))
    THEN Head(w) = Head(alpha) /\ DerivesPrefix(g, Tail(alpha), Tail(w))
    ELSE \E p \in {q \in g : Prods[q].lhs = Head(alpha)} :
            DerivesPrefix(g, Prods[p].str \o Tail(alpha), w)

IsSentencePrefix(g, w) == DerivesPrefix(g, <<StartSym>>, w)

\* The tree below node n of the arena, in the shape Derivations gives.
RECURSIVE TreeOf(_)
TreeOf(n) ==
    Node(nodes[n].sym,
         [k \in 1..Len(nodes[n].elems) |->
            IF nodes[n].elems[k].leaf THEN Leaf(nodes[n].elems[k].sym)
            ELSE TreeOf(nodes[n].elems[k].ref)])

\* The token positions of the leaves below node n, depth-first in child order.
RECURSIVE LeafRefs(_)
RECURSIVE LeafRefsOf(_, _)
LeafRefsOf(n, k) ==
    IF k > Len(nodes[n].elems) THEN <<>>
    ELSE (IF nodes[n].elems[k].leaf THEN <<nodes[n].elems[k].ref>>
          ELSE LeafRefs(nodes[n].elems[k].ref))
         \o LeafRefsOf(n, k + 1)
LeafRefs(n) == LeafRefsOf(n, 1)

\* parse was called and has returned.
Returned == pc = "done" /\ res # "AmbigousLLRule"

Errors == {"EmptyTokens", "UnexpectedRoot", "Unmatched", "UnexpectedDerive",
           "Unfinished", "TokensRemain"}

----------------------------------------------------------------------------
(* Claims *)

\* C1: parse returns success only when the cursor equals the token count;
\* a run whose stack empties with a token left unconsumed ends in the
\* 'Tokens remains' error.
C1_SuccessConsumesAll ==
    /\ (Returned /\ res = "Ok") => i = Len(tokens)
    /\ (Returned /\ Len(states_stack) = 0 /\ Len(tokens) > 0 /\ i < Len(tokens)
          /\ res \in {"Ok", "TokensRemain"})
       => res = "TokensRemain"

\* C2: for an LL(1) grammar, parse of a non-empty token sequence that is a
\* strict prefix of a sentence and no sentence itself returns the
\* 'Unfinished production' error.
C2_StrictPrefixUnfinished ==
    (Returned /\ Len(tokens) > 0
       /\ IsSentencePrefix(gram, tokens) /\ ~IsSentence(gram, tokens))
    => res = "Unfinished"

\* C3: for an LL(1) grammar and every (non-empty, as parse requires) token
\* sequence that is a sentence, parse succeeds, the leaves of the tree read
\* depth-first are the input tokens in order, and the tree is the tree of
\* the derivation: every node carries the symbols of the production used
\* for it, nonterminals expanded with Epsilon left out.
C3_RoundTrip ==
    (Returned /\ Len(tokens) > 0 /\ IsSentence(gram, tokens))
    => /\ res = "Ok"
       /\ LeafRefs(1) = [k \in 1..Len(tokens) |-> k - 1]
       /\ <<TreeOf(1)>> \in Derivations(gram, <<StartSym>>, tokens)

\* C4: with S -> a S b | Epsilon, [a, a, b, b] gives S[a, S[a, b], b],
\* [a, b, b] gives an error and [] gives the empty-input error.
C4_Scenario ==
    (Returned /\ gram = {1, 2})
    => /\ tokens = <<"a", "a", "b", "b">>
          => /\ res = "Ok"
             /\ TreeOf(1) = Node("S", <<Leaf("a"),
                                        Node("S", <<Leaf("a"), Leaf("b")>>),
                                        Leaf("b")>>)
       /\ tokens = <<"a", "b", "b">> => res \in Errors
       /\ tokens = <<>> => res = "EmptyTokens"

\* C5: parse returns Ok(root) or Err(message) and never aborts, also when
\* the production predicted for the start symbol and the first token is
\* the Epsilon production.
C5_ParseTotal ==
    Returned => res \in Errors \cup {"Ok"}

\* C6: parse of an empty token sequence returns the 'empty tokens' error
\* at once: no table lookup result, no tree node, no frame, no loop step.
Called == pc \notin {"new", "ready"} /\ res # "AmbigousLLRule"

C6_EmptyInput ==
    (Called /\ Len(tokens) = 0)
    => /\ pc = "done"
       /\ res = "EmptyTokens"
       /\ nodes = <<>>
       /\ states_stack = <<>>
       /\ symstr_stack = <<>>
       /\ cur_ast = 0
       /\ i = 0

C6_Witness == Returned /\ Len(tokens) = 0 /\ res = "EmptyTokens"

\* C7: with no table entry for (start symbol, first token) parse returns
\* the 'Unexpected token ... for root grammar' error and the loop never
\* runs; with an entry the loop starts from the single frame (root, the
\* production's right-hand side with its leftmost symbol on top) and the
\* result of parse is the loop's result.
LoopResults == {"Ok", "Unmatched", "UnexpectedDerive", "Unfinished", "TokensRemain"}

C7_RootLookup ==
    (Called /\ Len(tokens) > 0)
    => LET prod == predict_prod(StartSym, tokens[1])
       IN  /\ prod = 0
              => /\ pc = "done"
                 /\ res = "UnexpectedRoot"
                 /\ nodes = <<AST_new(StartSym)>>
                 /\ states_stack = <<>> /\ cur_ast = 0 /\ i = 0
           /\ prod # 0
              => /\ pc = "done" => res \in LoopResults
                 /\ cur_ast = 0
                    => /\ pc = "outer" /\ i = 0 /\ res = "none"
                       /\ Len(states_stack) = 1
                       /\ states_stack[1].ast = 1
                       /\ Len(states_stack[1].syms) = Len(Prods[prod].str)
                       /\ \A k \in 1..Len(Prods[prod].str) :
                            states_stack[1].syms[Len(Prods[prod].str) + 1 - k]
                              = Prods[prod].str[k]

\* C8: construction computes FIRST, FOLLOW and PREDICT before any parse, and
\* yields a parser only if no key is claimed by two productions: on such a
\* grammar it ends with the ambiguity diagnostic and no parse runs; the
\* table of a parser maps every key to its one claimant or to none.
Conflict(g) ==
    LET F  == first_sets(g)
        Fo == follow_sets(g, F)
    IN  \E p, q \in g :
           /\ p # q
           /\ Prods[p].lhs = Prods[q].lhs
           /\ \E la \in Lookaheads :
                {p, q} \subseteq Claimants(g, F, Fo, Prods[p].lhs, la)

C9_ParseTerminates == <>(pc = "done")

C9_Witness ==
    /\ Returned /\ res = "Ok" /\ i = Len(tokens)
    /\ Len(nodes) >= 3
    /\ \E k \in Keys : k[2] \in Terminals /\ prediction_sets[k] # 0
                       /\ Prods[prediction_sets[k]].eps

\* C10: success is returned only when no symbol is left pending on any
\* frame; when the input is exhausted and a pending symbol of some frame
\* does not admit the end-of-input lookahead, the result is
\* 'Unfinished production'.
Pending ==
    Range(symstr_stack) \cup UNION {Range(states_stack[k].syms) : k \in 1..Len(states_stack)}

C10_NoPendingSkipped ==
    /\ (Returned /\ res = "Ok") => Pending = {}
    /\ (Returned /\ Len(tokens) > 0 /\ i = Len(tokens)
          /\ \E s \in Pending : predict_prod(s, EndMarker) = 0)
       => res = "Unfinished"

\* C11: when a pending nonterminal s is expanded with a non-Epsilon
\* production, a new node for s becomes the last child of the current
\* frame's node, the current frame is pushed back with exactly its
\* remaining symbols and the new frame (new node, right-hand side with its
\* leftmost symbol on top) is pushed above it; and the symbols of the new
\* frame are all processed before a remaining symbol of the parent frame:
\* a frame with symbols left is resumed only when the frame in hand has
\* none left or waits on the stack itself.
Expanding ==
    /\ pc = "inner" /\ Len(symstr_stack) > 0 /\ i < Len(tokens)
    /\ Top(symstr_stack) \in NonTerminals
    /\ predict_prod(Top(symstr_stack), tokens[i + 1]) # 0
    /\ ~Prods[predict_prod(Top(symstr_stack), tokens[i + 1])].eps

InHandSaved ==
    /\ Len(states_stack) >= 2
    /\ states_stack[Len(states_stack) - 1] = [ast |-> cur_ast, syms |-> symstr_stack]

C11_ExpandStep ==
    Expanding =>
      LET s   == Top(symstr_stack)
          rhs == Prods[predict_prod(s, tokens[i + 1])].str
          new == Len(nodes) + 1
      IN  /\ Len(nodes') = new
          /\ nodes'[new] = [sym |-> s, elems |-> <<>>]
          /\ nodes'[cur_ast].sym = nodes[cur_ast].sym
          /\ nodes'[cur_ast].elems =
               Append(nodes[cur_ast].elems, [sym |-> s, leaf |-> FALSE, ref |-> new])
          /\ \A n \in 1..Len(nodes) : n # cur_ast => nodes'[n] = nodes[n]
          /\ Len(states_stack') = Len(states_stack) + 2
          /\ SubSeq(states_stack', 1, Len(states_stack)) = states_stack
          /\ states_stack'[Len(states_stack) + 1]
               = [ast |-> cur_ast, syms |-> SubSeq(symstr_stack, 1, Len(symstr_stack) - 1)]
          /\ states_stack'[Len(states_stack) + 2].ast = new
          /\ Len(states_stack'[Len(states_stack) + 2].syms) = Len(rhs)
          /\ \A k \in 1..Len(rhs) :
               states_stack'[Len(states_stack) + 2].syms[Len(rhs) + 1 - k] = rhs[k]
          /\ i' = i /\ pc' = "outer"

C11_ChildBeforeParent ==
    (pc = "outer" /\ pc' = "inner" /\ Len(symstr_stack') > 0)
    => (Len(symstr_stack) = 0 \/ InHandSaved)

C11_LeftmostOrder == [][C11_ExpandStep /\ C11_ChildBeforeParent]_vars

\* C12: an expansion with the Epsilon production removes s from the
\* current frame's pending symbols and changes nothing else (cursor, tree,
\* other frames); the nodes of a tree are created only by parse (the root)
\* and by non-Epsilon expansions, never by an Epsilon expansion.
EpsilonExpanding ==
    /\ pc = "inner" /\ Len(symstr_stack) > 0 /\ i < Len(tokens)
    /\ Top(symstr_stack) \in NonTerminals
    /\ predict_prod(Top(symstr_stack), tokens[i + 1]) # 0
    /\ Prods[predict_prod(Top(symstr_stack), tokens[i + 1])].eps

C12_EpsilonStep ==
    /\ EpsilonExpanding
       => /\ symstr_stack' = SubSeq(symstr_stack, 1, Len(symstr_stack) - 1)
          /\ i' = i /\ nodes' = nodes /\ states_stack' = states_stack
          /\ cur_ast' = cur_ast /\ res' = res /\ pc' = "inner"
    /\ Len(nodes') > Len(nodes) => (pc = "ready" \/ Expanding)

C12_EpsilonOnlyPops == [][C12_EpsilonStep]_vars

\* Reached only through Epsilon expansions in the root frame: fewer symbols
\* are pending than the start production has left after i matches, and no
\* node but the root exists.
C12_Witness ==
    /\ pc = "inner" /\ Len(nodes) = 1 /\ cur_ast = 1
    /\ Len(symstr_stack) + i < Len(Prods[predict_prod(StartSym, tokens[1])].str)

\* C13: while input remains, a popped terminal that differs from the
\* current token ends the parse with 'Unmatched token', and a popped
\* nonterminal without a table entry for the current token ends it with
\* 'Unexpected token ... for derive'; the cursor and the tree stay as they
\* are, and nothing happens after parse has returned.
Mismatching ==
    /\ pc = "inner" /\ Len(symstr_stack) > 0 /\ i < Len(tokens)
    /\ Top(symstr_stack) \in Terminals
    /\ Top(symstr_stack) # tokens[i + 1]

Unpredicted ==
    /\ pc = "inner" /\ Len(symstr_stack) > 0 /\ i < Len(tokens)
    /\ Top(symstr_stack) \in NonTerminals
    /\ predict_prod(Top(symstr_stack), tokens[i + 1]) = 0

C13_FailStep ==
    /\ Mismatching
       => pc' = "done" /\ res' = "Unmatched" /\ i' = i /\ nodes' = nodes
    /\ Unpredicted
       => pc' = "done" /\ res' = "UnexpectedDerive" /\ i' = i /\ nodes' = nodes
    /\ pc = "done" => vars' = vars

C13_FailFast == [][C13_FailStep]_vars

C13_Witness ==
    /\ Returned /\ res = "UnexpectedDerive" /\ i >= 1 /\ Len(nodes) >= 2
    /\ Len(states_stack) >= 1

\* C14: the cursor never decreases and grows by one exactly on a terminal
\* match; the tree is append-only: nodes keep their symbol and their
\* children, in order, and only gain children at the end.
Matching ==
    /\ pc = "inner" /\ Len(symstr_stack) > 0 /\ i < Len(tokens)
    /\ Top(symstr_stack) \in Terminals
    /\ Top(symstr_stack) = tokens[i + 1]

C14_Step ==
    /\ i' = (IF Matching THEN i + 1 ELSE i)
    /\ Len(nodes') >= Len(nodes)
    /\ \A n \in 1..Len(nodes) :
         /\ nodes'[n].sym = nodes[n].sym
         /\ Len(nodes'[n].elems) >= Len(nodes[n].elems)
         /\ SubSeq(nodes'[n].elems, 1, Len(nodes[n].elems)) = nodes[n].elems

C14_NoBacktracking == [][C14_Step]_vars

C14_Witness ==
    /\ i >= 3 /\ Len(nodes) >= 2
    /\ Len(nodes[1].elems) >= 3 /\ Len(nodes[2].elems) >= 1

\* C15 (as claimed): every step that processes a popped pending symbol
\* consumes exactly one token or strictly decreases the number of pending
\* symbols summed over the frames.
RECURSIVE SumSyms(_)
SumSyms(frames) ==
    IF Len(frames) = 0 THEN 0
    ELSE Len(frames[1].syms) + SumSyms(Tail(frames))

\* The frame in hand counts while the inner loop runs on it.
PendingCount(p, inhand, frames) ==
    (IF p = "inner" THEN Len(inhand) ELSE 0) + SumSyms(frames)

SymbolStep == pc = "inner" /\ Len(symstr_stack) > 0

C15_Original ==
    [][SymbolStep
         => \/ i' = i + 1
            \/ PendingCount(pc', symstr_stack', states_stack')
                 < PendingCount(pc, symstr_stack, states_stack)]_vars

\* C15 (amended): such a step consumes exactly one token, or strictly
\* decreases the number of pending symbols, or is a non-Epsilon expansion,
\* which adds one node to the tree and puts the production's right-hand
\* side in the place of the popped symbol (the count changes by the
\* length of the right-hand side minus one).
C15_Progress ==
    [][SymbolStep
         => \/ i' = i + 1
            \/ PendingCount(pc', symstr_stack', states_stack')
                 < PendingCount(pc, symstr_stack, states_stack)
            \/ /\ Expanding
               /\ i' = i
               /\ Len(nodes') = Len(nodes) + 1
               /\ PendingCount(pc', symstr_stack', states_stack')
                    = PendingCount(pc, symstr_stack, states_stack) - 1
                      + Len(Prods[predict_prod(Top(symstr_stack), tokens[i + 1])].str)]_vars

\* After an expansion with a right-hand side of three symbols.
C15_Witness ==
    /\ pc = "outer" /\ InHandSaved
    /\ Len(states_stack[Len(states_stack)].syms) = 3
    /\ nodes[states_stack[Len(states_stack)].ast].elems = <<>>

\* C16: the tree is acyclic and every node but the root is a child of
\* exactly one node, exactly once; the frames on the stack hold pairwise
\* distinct nodes, the bottom frame holds the root, every frame above holds
\* the last child of the node of the frame below it, and the frame in hand
\* holds the last child of the node of the top frame.
ParentSlots(n) ==
    UNION {{<<m, k>> : k \in {j \in 1..Len(nodes[m].elems) :
                                 /\ ~nodes[m].elems[j].leaf
                                 /\ nodes[m].elems[j].ref = n}}
           : m \in 1..Len(nodes)}

LastChild(m) == nodes[m].elems[Len(nodes[m].elems)]

IsLastChildOf(n, m) ==
    /\ Len(nodes[m].elems) > 0
    /\ ~LastChild(m).leaf
    /\ LastChild(m).ref = n

ShapeOk ==
    Len(nodes) > 0 =>
      /\ ParentSlots(1) = {}
      /\ \A n \in 2..Len(nodes) :
           /\ Cardinality(ParentSlots(n)) = 1
           /\ \A sl \in ParentSlots(n) : sl[1] < n
      /\ \A j, k \in 1..Len(states_stack) :
           j # k => states_stack[j].ast # states_stack[k].ast
      /\ Len(states_stack) > 0 => states_stack[1].ast = 1
      /\ \A k \in 2..Len(states_stack) :
           IsLastChildOf(states_stack[k].ast, states_stack[k - 1].ast)
      /\ (pc = "inner" /\ Len(states_stack) > 0)
         => IsLastChildOf(cur_ast, states_stack[Len(states_stack)].ast)
      /\ (pc = "inner" /\ Len(states_stack) = 0) => cur_ast = 1

\* ... so that a step changes no node but the one of the frame in hand.
OnlyCurrentMutated ==
    \A n \in 1..Len(nodes) :
       nodes'[n] # nodes[n] => (pc = "inner" /\ n = cur_ast)

C16_Shape == []ShapeOk /\ [][OnlyCurrentMutated]_vars

C16_Witness ==
    /\ pc = "inner" /\ Len(states_stack) >= 2 /\ Len(nodes) >= 3
    /\ Len(nodes[1].elems) >= 2

\* C17: at every point of a parse with cursor i the leaves under the root,
\* read depth-first in child order, are the tokens 0 .. i-1 in order, each
\* leaf labelled with the name of its token.
RECURSIVE LeafSyms(_)
RECURSIVE LeafSymsOf(_, _)
LeafSymsOf(n, k) ==
    IF k > Len(nodes[n].elems) THEN <<>>
    ELSE (IF nodes[n].elems[k].leaf THEN <<nodes[n].elems[k].sym>>
          ELSE LeafSyms(nodes[n].elems[k].ref))
         \o LeafSymsOf(n, k + 1)
LeafSyms(n) == LeafSymsOf(n, 1)

C17_ConsumedPrefix ==
    Len(nodes) > 0 =>
      /\ LeafRefs(1) = [k \in 1..i |-> k - 1]
      /\ LeafSyms(1) = SubSeq(tokens, 1, i)

C17_Witness ==
    /\ Returned /\ res = "Ok" /\ i >= 3 /\ Len(nodes) >= 2
    /\ Len(nodes[2].elems) >= 1 /\ Len(nodes[1].elems) >= 3

\* C18: two offsets on the same source line get the same line number and
\* the column is the offset minus the line's start: the location of an
\* offset has the line number of the first character of its line.
LineStartOf(src, off) ==
    CHOOSE k \in 0..off :
       /\ k = 0 \/ src[k] = NewLine
       /\ \A j \in (k + 1)..off : src[j] # NewLine

C18_SameLineSameNumber ==
    (pc = "src_loc" /\ offset < Len(srcstr))
    => /\ ~srcloc.panic
       /\ srcloc.ln = offset2srcloc(lines, LineStartOf(srcstr, offset)).ln
       /\ srcloc.col = offset - LineStartOf(srcstr, offset)

\* C19: the table of build_lines starts with 0 and is strictly increasing;
\* so when the offset is not in the table the insertion index is between
\* 1 and the length of the table, and neither lines[idx - 1] nor the
\* subtraction leaves the range.
C19_TableAndIndex ==
    /\ pc \in {"src_ready", "src_loc"}
       => /\ Len(lines) >= 1 /\ lines[1] = 0
          /\ \A k \in 1..(Len(lines) - 1) : lines[k] < lines[k + 1]
    /\ pc = "src_loc"
       => /\ ~srcloc.panic
          /\ ~binary_search(lines, offset).found
             => /\ binary_search(lines, offset).idx \in 1..Len(lines)
                /\ srcloc.col = offset - lines[binary_search(lines, offset).idx]
                /\ srcloc.col >= 0

C19_Witness ==
    /\ pc = "src_loc" /\ Len(lines) >= 2
    /\ ~binary_search(lines, offset).found
    /\ binary_search(lines, offset).idx = Len(lines)

====
